---- MODULE Spec2Model ----
(***************************************************************************)
(* CountdownEngine (src/js/countdown.js): the target, the two scheduling   *)
(* primitives (setInterval / requestAnimationFrame), the tick cycle and    *)
(* the deferred auto-rollover, together with the browser's timer queues.   *)
(*                                                                         *)
(* Instants.  A JavaScript time stamp (milliseconds since 1970) does not   *)
(* fit TLC's 32-bit integers, so an instant is a record [yr, ms]: ms       *)
(* milliseconds after December 26, 00:00 local time, of year yr.  The      *)
(* clock stays within December of its year, so yr is the calendar year of  *)
(* a clock value and two instants of the scheduling machine, all within    *)
(* seconds of December 26, are ordered by their years when these differ.   *)
(* The fraction of a millisecond that performance.now() adds to the clock  *)
(* is kept apart (subMs).  Differences of instants are durations           *)
(* [d, ms, f]: d whole days, ms milliseconds below a day and f parts of a  *)
(* millisecond, so that the arithmetic of calculateTimeRemaining() is      *)
(* exact.  Local time has a fixed offset (no daylight-saving change        *)
(* between the instants compared).                                         *)
(***************************************************************************)
EXTENDS Integers, Sequences, FiniteSets

\* ---------------------------------------------------------------- bounds
\* The clock starts StartOffset ms before December 26, advances by ClockStep
\* ms (or to the next due time of a timer) and stops at MaxTime.
StartOffset == 1000
ClockStep == 5000
MaxTime == 5000
\* At most MaxPending deferred rollovers (and frame callbacks) are queued.
MaxPending == 2
\* History counters saturate at MaxCount.
MaxCount == 2
\* The high-precision clock resolves SubMsSteps parts of a millisecond.
SubMsSteps == 2
\* formatUnit() is given the values 0..MaxValue.
MaxValue == 101

\* ------------------------------------------------------ program constants
DefaultUpdateFrequency == 1000
RafThreshold == 100
RolloverDelay == 5000
YearRangeStart == 2024
YearRangeEnd == 2035
SecondMs == 1000
MinuteMs == 60000
HourMs == 3600000
DayMs == 86400000

\* ------------------------------------------------------------ input sets
\* options.updateFrequency: one value below the threshold, and the default.
UpdateFrequencies == {50, DefaultUpdateFrequency}
\* The calendar year of the clock.
ClockYears == {YearRangeEnd - 1, YearRangeEnd}
\* Explicit years given to setBoxingDay(year).
YearInputs == {YearRangeEnd - 1, YearRangeEnd}
\* Parsed values of the date strings given to setCustomDate(): half a second
\* before December 26, in each year of the clock.
CustomDates == {[yr |-> y, ms |-> -500] : y \in ClockYears}
\* options.onUpdate / options.onComplete: the callback that throws whenever it
\* is called, or "none" when both return normally.
ThrowingCallbacks == {"none", "onUpdate", "onComplete"}

\* ---------------------------------------------------- JavaScript values
\* Handles and years are positive integers; null and undefined are encoded
\* as the two values below them.
Null == 0
Undefined == -1
\* `if (x)` on a handle or a year: null and undefined are falsy.
Truthy(v) == v \notin {Null, Undefined}
\* this.targetDate = null
NoDate == [yr |-> Null, ms |-> 0]
\* NaN, the time value of an Invalid Date and all that is computed from it,
\* is encoded below undefined.
NaN == -2
\* new Date(dateString) for a string that does not parse
InvalidDate == [yr |-> NaN, ms |-> NaN]

\* ------------------------------------- input sets of the arithmetic
\* Clock values from 15 days before December 26 to a day
\* after it,
CalcClockOffsets == {0 - 15 * DayMs, 0 - DayMs, 0 - SecondMs, 0, 1, DayMs}
\* explicit years inside and outside yearRange,
CalcYearInputs == {YearRangeStart - 1, YearRangeEnd - 1, YearRangeEnd, YearRangeEnd + 1}
\* and date strings: one that does not parse, and in each year of the clock
\* December 25 23:59:59.500, December 27 01:01:01.001 and January 10 after.
CalcCustomOffsets == {-500, DayMs + HourMs + MinuteMs + SecondMs + 1, 15 * DayMs}
CalcCustomDates ==
    {[yr |-> y, ms |-> o] : y \in ClockYears, o \in CalcCustomOffsets} \cup {InvalidDate}
\* padLength given to formatUnit(): left out, 1 or 3.
PadLengths == {Undefined, 1, 3}
\* this.lastUpdateTime = 0: the epoch, years before any clock value
EpochZero == [yr |-> 1970, ms |-> 0]

\* window.requestAnimationFrame is present (a browser).
HasRequestAnimationFrame == TRUE

\* new Date(year, 11, 26, 0, 0, 0, 0)
BoxingDayDate(year) == [yr |-> year, ms |-> 0]
\* a - b <= 0 on time stamps; a comparison with NaN is false
DiffLeqZero(a, b) == a # InvalidDate /\ (a.yr < b.yr \/ (a.yr = b.yr /\ a.ms <= b.ms))
\* a >= b on Dates
DateNotBefore(a, b) == a.yr > b.yr \/ (a.yr = b.yr /\ a.ms >= b.ms)

\* a > b on Dates
DateAfter(a, b) == a.yr > b.yr \/ (a.yr = b.yr /\ a.ms > b.ms)
\* a - b >= d on time stamps, for a delay d far below a year
ElapsedAtLeast(a, b, d) == b.yr < a.yr \/ (a.yr = b.yr /\ a.ms - b.ms >= d)

\* The ids the browser hands out are fresh; an id that is neither pending nor
\* held in a handle can never be named again, so the least such id is reused.
FreshId(used) == CHOOSE i \in 1..(MaxPending + 3) : i \notin used /\ \A j \in 1..(i - 1) : j \in used

Min(a, b) == IF a < b THEN a ELSE b

\* The element of a one-element set: a value that is computed once and used
\* under a name, as a local constant of the code is.
Only(S) == CHOOSE x \in S : TRUE

\* ------------------------------------------------- calendar and durations
IsLeapYear(y) == (y % 4 = 0 /\ y % 100 # 0) \/ y % 400 = 0
DaysInYear(y) == IF IsLeapYear(y) THEN 366 ELSE 365

\* Whole days from December 26 of year a to December 26 of year b.
RECURSIVE BoxingDayGap(_, _)
BoxingDayGap(a, b) ==
    IF a = b THEN 0
    ELSE IF a < b THEN DaysInYear(a + 1) + BoxingDayGap(a + 1, b)
    ELSE 0 - BoxingDayGap(b, a)

ZeroDuration == [d |-> 0, ms |-> 0, f |-> 0]
NaNDuration == [d |-> NaN, ms |-> NaN, f |-> NaN]

\* date.getTime() plus f parts of a millisecond, as the duration since
\* December 26 of year y
Since(date, f, y) ==
    [d |-> BoxingDayGap(y, date.yr) + (date.ms \div DayMs), ms |-> date.ms % DayMs, f |-> f]

\* new Date(year, 0, 1).getTime(), as the duration since December 26 of y:
\* December 26 is six days before the end of its year
YearStartSince(year, y) ==
    [d |-> BoxingDayGap(y, year) - (DaysInYear(year) - 6), ms |-> 0, f |-> 0]

\* a - b without the borrow from the days
DurationMinusNoBorrow(a, b) ==
    LET f0 == a.f - b.f
        bf == IF f0 < 0 THEN 1 ELSE 0
        m0 == a.ms - b.ms - bf
        bm == IF m0 < 0 THEN 1 ELSE 0
    IN [d |-> a.d - b.d, ms |-> m0 + bm * DayMs, f |-> f0 + bf * SubMsSteps]

\* a - b
DurationMinus(a, b) ==
    LET f0 == a.f - b.f
        bf == IF f0 < 0 THEN 1 ELSE 0
        m0 == a.ms - b.ms - bf
        bm == IF m0 < 0 THEN 1 ELSE 0
    IN [d |-> a.d - b.d - bm, ms |-> m0 + bm * DayMs, f |-> f0 + bf * SubMsSteps]

\* a < b
DurationLess(a, b) ==
    a.d < b.d \/ (a.d = b.d /\ (a.ms < b.ms \/ (a.ms = b.ms /\ a.f < b.f)))

\* a * k for a >= 0 and a small natural k
DurationTimes(a, k) ==
    LET f1 == a.f * k
        m1 == a.ms * k + (f1 \div SubMsSteps)
    IN [d |-> a.d * k + (m1 \div DayMs), ms |-> m1 % DayMs, f |-> f1 % SubMsSteps]

\* diff < 0
DiffNegative(diff) == DurationLess(diff, ZeroDuration)

\* diff <= 0
DiffNotPositive(diff) == diff = ZeroDuration \/ DurationLess(diff, ZeroDuration)

\* Math.floor of the part of a below a day, over unit
FloorDivOfDay(a, unit) == a.ms \div unit

\* Math.floor(a / unit) for a > 0 and a unit that divides the day
FloorDiv(a, unit) == a.d * (DayMs \div unit) + (a.ms \div unit)

\* The first n decimals of r / t for 0 <= r < t, as a natural number.
RECURSIVE Decimals(_, _, _, _)
Decimals(r, t, n, acc) ==
    IF n = 0 THEN acc
    ELSE LET r10 == DurationTimes(r, 10)
             k == CHOOSE j \in 0..9 : /\ ~DurationLess(r10, DurationTimes(t, j))
                                      /\ DurationLess(r10, DurationTimes(t, j + 1))
         IN Decimals(DurationMinus(r10, DurationTimes(t, k)), t, n - 1, acc * 10 + k)

\* Math.min(100, Math.max(0, (elapsed / total) * 100)).toFixed(2), as the
\* hundredths of a percent the string names (NaN for "NaN")
ProgressText(elapsed, total) ==
    LET neg(a) == DurationLess(a, ZeroDuration)
        abs(a) == IF neg(a) THEN DurationMinus(ZeroDuration, a) ELSE a
    IN IF total = ZeroDuration
       THEN (IF elapsed = ZeroDuration THEN NaN ELSE IF neg(elapsed) THEN 0 ELSE 10000)
       ELSE IF elapsed = ZeroDuration \/ neg(elapsed) # neg(total) THEN 0
       ELSE IF ~DurationLess(abs(elapsed), abs(total)) THEN 10000
       ELSE (Decimals(abs(elapsed), abs(total), 5, 0) + 5) \div 10

VARIABLES
    now,             \* the clock: getHighPrecisionTime() / new Date()
    updateFrequency, \* this.updateFrequency
    targetDate,      \* this.targetDate
    targetYear,      \* this.targetYear
    intervalId,      \* this.intervalId
    rafId,           \* this.rafId
    lastUpdateTime,  \* this.lastUpdateTime
    intervals,       \* browser: pending setInterval timers [id, due]
    frames,          \* browser: pending requestAnimationFrame callbacks [id, fresh]
    timeouts,        \* browser: pending setTimeout rollovers, in due order
    subMs,           \* the clock: parts of a millisecond beyond now
    remaining,       \* the object calculateTimeRemaining() returned to the caller last
    returned,        \* the last call of getAllBoxingDays() / formatUnit() and its value
    currentYear,     \* BoxingDayApp: this.currentYear
    soundEnabled,    \* NotificationManager.soundEnabled
    storage,         \* localStorage: the item stored under each key, or "absent"
    throwing,        \* the callback of the options that throws, or "none"
    kind,            \* history: which setter set the active target
    completions,     \* history: onComplete calls for the active target
    lastOp           \* history: the operation just performed, its year argument
                     \* and what it did

vars == <<now, subMs, remaining, returned, currentYear, soundEnabled, storage, updateFrequency, targetDate, targetYear, intervalId, rafId, lastUpdateTime, intervals, frames, timeouts, throwing, kind, completions, lastOp>>

\* The engine and the timer queues as one record, so that the methods compose.
St == [now |-> now, subMs |-> subMs, remaining |-> remaining, returned |-> returned,
       currentYear |-> currentYear, soundEnabled |-> soundEnabled, storage |-> storage,
       updateFrequency |-> updateFrequency, targetDate |-> targetDate,
       targetYear |-> targetYear, intervalId |-> intervalId, rafId |-> rafId,
       lastUpdateTime |-> lastUpdateTime, intervals |-> intervals, frames |-> frames,
       timeouts |-> timeouts, throwing |-> throwing, kind |-> kind,
       completions |-> completions,
       arg |-> Null, ticks |-> 0, completes |-> 0, scheduled |-> 0, thrown |-> FALSE,
       trace |-> <<>>]

\* What an operation does is kept as the sequence of its calls, each with the
\* engine's fields as they are when the call is made.
Event(s, e, complete) ==
    [e |-> e, complete |-> complete, at |-> s.now.ms, target |-> s.targetDate,
     intervalId |-> s.intervalId, rafId |-> s.rafId]

Traced(s, e, complete) == [s EXCEPT !.trace = Append(@, Event(s, e, complete))]

\* ---------------------------------------------------------------- methods
\* setBoxingDay(year) rolling an explicit year forward as well
SetBoxingDayRolling(s, year) ==
    LET thisYear == IF Truthy(year) THEN year ELSE s.now.yr
        passed == DateAfter(s.now, BoxingDayDate(thisYear))
        resolved == IF passed THEN thisYear + 1 ELSE thisYear
    IN Traced([s EXCEPT !.targetDate = BoxingDayDate(resolved), !.targetYear = resolved,
                         !.kind = "recurring", !.completions = 0], "setBoxingDay", FALSE)

\* setBoxingDay(year = null)
SetBoxingDay(s, year) ==
    LET thisYear == IF Truthy(year) THEN year ELSE s.now.yr
        passed == ~Truthy(year) /\ DateAfter(s.now, BoxingDayDate(thisYear))
        resolved == IF passed THEN thisYear + 1 ELSE thisYear
    IN Traced([s EXCEPT !.targetDate = BoxingDayDate(resolved), !.targetYear = resolved,
                         !.kind = "recurring", !.completions = 0], "setBoxingDay", FALSE)

\* setCustomDate(dateString, name): targetYear is left as it was
SetCustomDate(s, date) ==
    Traced([s EXCEPT !.targetDate = date, !.kind = "custom", !.completions = 0],
           "setCustomDate", FALSE)

\* the default target set on every use
EnsureTargetAlways(s) == SetBoxingDay(s, Null)

\* calculateTimeRemaining(), lines 65-67: the default target on first use
EnsureTarget(s) == IF s.targetDate = NoDate THEN SetBoxingDay(s, Null) ELSE s

\* calculateTimeRemaining().isComplete, lines 69-73, once the target is set
IsComplete(s) == DiffLeqZero(s.targetDate, s.now)

\* calculateTimeRemaining(), lines 69-116, once the target is set: the object
\* returned.  A property the object lacks reads as undefined; progress is a
\* number (text FALSE) or the string of toFixed(2) (text TRUE), in
\* hundredths of a percent.
Remaining(s) ==
    LET y == s.now.yr
        clock == Since(s.now, s.subMs, y)
        target == Since(s.targetDate, 0, y)
        diff == DurationMinus(target, clock)
        totalDays == FloorDiv(diff, DayMs)
        yearStart == YearStartSince(IF Truthy(s.targetYear) THEN s.targetYear ELSE y, y)
    IN IF s.targetDate = InvalidDate
       THEN [total |-> NaNDuration, months |-> NaN, weeks |-> NaN, days |-> NaN,
             hours |-> NaN, minutes |-> NaN, seconds |-> NaN,
             milliseconds |-> [ms |-> NaN, f |-> NaN], totalDays |-> NaN,
             isComplete |-> FALSE, progress |-> [text |-> TRUE, hundredths |-> NaN]]
       ELSE IF DiffNotPositive(diff)
       THEN [total |-> ZeroDuration, months |-> 0, weeks |-> 0, days |-> 0,
             hours |-> 0, minutes |-> 0, seconds |-> 0,
             milliseconds |-> [ms |-> 0, f |-> 0], totalDays |-> Undefined,
             isComplete |-> TRUE, progress |-> [text |-> FALSE, hundredths |-> 10000]]
       ELSE [total |-> diff,
             months |-> totalDays \div 30,
             weeks |-> (totalDays \div 7) % 4,
             days |-> totalDays % 7,
             hours |-> FloorDiv(diff, HourMs) % 24,
             minutes |-> FloorDiv(diff, MinuteMs) % 60,
             seconds |-> FloorDiv(diff, SecondMs) % 60,
             milliseconds |-> [ms |-> diff.ms % SecondMs, f |-> diff.f],
             totalDays |-> totalDays,
             isComplete |-> FALSE,
             progress |-> [text |-> TRUE,
                           hundredths |-> ProgressText(DurationMinus(clock, yearStart),
                                                       DurationMinus(target, yearStart))]]

\* calculateTimeRemaining()
CalculateTimeRemaining(s) ==
    LET a == EnsureTarget(s)
    IN [a EXCEPT !.remaining = Remaining(a)]

\* stop()
Stop(s) ==
    LET a == IF Truthy(s.intervalId)
             THEN [s EXCEPT !.intervals = {t \in s.intervals : t.id # s.intervalId},
                            !.intervalId = Null]
             ELSE s
    IN Traced(IF Truthy(a.rafId)
              THEN [a EXCEPT !.frames = {f \in a.frames : f.id # a.rafId}, !.rafId = Null]
              ELSE a, "stop", FALSE)

\* setTimeout(() => { setBoxingDay(targetYear + 1); start() }, 5000): the
\* queue entry records the completion that scheduled it.
ScheduleRollover(s) ==
    Traced([s EXCEPT !.timeouts = Append(@, [due |-> s.now.ms + RolloverDelay,
                                             forYear |-> s.targetYear, stopped |-> FALSE,
                                             retargeted |-> FALSE, restarted |-> FALSE]),
                     !.scheduled = @ + 1], "setTimeout", FALSE)

\* update() calling onComplete before stop()
UpdateCompleteFirst(s) ==
    Only({ LET b == [a EXCEPT !.ticks = @ + 1,
                             !.thrown = (a.throwing = "onUpdate"),
                             !.trace = Append(@, Event(a, "onUpdate", IsComplete(a)))]
           IN IF b.thrown \/ ~IsComplete(a) THEN b
              ELSE Only({ IF c.thrown THEN c
                          ELSE Only({ IF Truthy(d.targetYear) /\ d.targetYear < YearRangeEnd
                                      THEN ScheduleRollover(d)
                                      ELSE d
                                      : d \in {Stop(c)} })
                          : c \in {[b EXCEPT !.completes = @ + 1,
                                            !.completions = Min(@ + 1, MaxCount),
                                            !.thrown = (b.throwing = "onComplete"),
                                            !.trace = Append(@, Event(b, "onComplete", FALSE))]} })
           : a \in {EnsureTarget(s)} })

\* update(): the callbacks are called without try/catch, so an exception
\* thrown by one ends update() there and goes on to the caller of update()
Update(s) ==
    Only({ LET b == [a EXCEPT !.ticks = @ + 1,                       \* onUpdate(remaining)
                             !.thrown = (a.throwing = "onUpdate"),
                             !.trace = Append(@, Event(a, "onUpdate", IsComplete(a)))]
           IN IF b.thrown \/ ~IsComplete(a) THEN b
              ELSE Only({ IF d.thrown THEN d
                          ELSE IF Truthy(d.targetYear) /\ d.targetYear < YearRangeEnd
                          THEN ScheduleRollover(d)
                          ELSE d
                          : d \in {[c EXCEPT !.completes = @ + 1,    \* onComplete()
                                            !.completions = Min(@ + 1, MaxCount),
                                            !.thrown = (c.throwing = "onComplete"),
                                            !.trace = Append(@, Event(c, "onComplete", FALSE))]
                                   : c \in {Stop(b)}} })
           : a \in {EnsureTarget(s)} })

\* rafLoop()
RafLoop(s) ==
    Only({ IF a.thrown THEN a
           ELSE LET id == FreshId({f.id : f \in a.frames} \cup {a.rafId})
                IN [a EXCEPT !.rafId = id, !.frames = @ \cup {[id |-> id, fresh |-> TRUE]}]
           : a \in {IF ElapsedAtLeast(s.now, s.lastUpdateTime, s.updateFrequency)
                    THEN Only({ IF u.thrown THEN u ELSE [u EXCEPT !.lastUpdateTime = s.now]
                                : u \in {Update(s)} })
                    ELSE s} })

\* start()
Start(s) ==
    Only({ IF b.thrown THEN b
           ELSE IF HasRequestAnimationFrame /\ b.updateFrequency < RafThreshold
           THEN RafLoop(b)
           ELSE LET id == FreshId({t.id : t \in b.intervals} \cup {b.intervalId})
                IN [b EXCEPT !.intervalId = id,
                             !.intervals = @ \cup {[id |-> id, due |-> b.now.ms + b.updateFrequency]}]
           : b \in {Update(Only({ IF Truthy(a.intervalId) THEN Stop(a) ELSE a
                                   : a \in {Traced(s, "start", FALSE)} }))} })

\* getAllBoxingDays() stopping one year early
GetAllBoxingDaysShort(s) ==
    [i \in 1..(YearRangeEnd - YearRangeStart) |->
        [year |-> YearRangeStart + i - 1,
         date |-> BoxingDayDate(YearRangeStart + i - 1),
         dayOfWeek |-> (4 + BoxingDayGap(2024, YearRangeStart + i - 1)) % 7]]

\* getAllBoxingDays(): one entry for each year from yearRange.start to
\* yearRange.end; dayOfWeek is the number of the weekday (0 = Sunday,
\* December 26, 2024 being a Thursday), of which `formatted` is a rendering
GetAllBoxingDays(s) ==
    [i \in 1..(YearRangeEnd - YearRangeStart + 1) |->
        [year |-> YearRangeStart + i - 1,
         date |-> BoxingDayDate(YearRangeStart + i - 1),
         dayOfWeek |-> (4 + BoxingDayGap(2024, YearRangeStart + i - 1)) % 7]]

\* String(value) for an integer value >= 0: its decimal digits
RECURSIVE ToString(_)
ToString(value) ==
    LET digit == <<"0", "1", "2", "3", "4", "5", "6", "7", "8", "9">>[(value % 10) + 1]
    IN IF value < 10 THEN <<digit>> ELSE Append(ToString(value \div 10), digit)

\* padStart cutting the string to the target length
PadStartCut(str, targetLength, pad) ==
    IF Len(str) >= targetLength THEN SubSeq(str, Len(str) - targetLength + 1, Len(str))
    ELSE [i \in 1..(targetLength - Len(str)) |-> pad] \o str

\* str.padStart(targetLength, pad) for a pad of one character
PadStart(str, targetLength, pad) ==
    IF Len(str) >= targetLength THEN str
    ELSE [i \in 1..(targetLength - Len(str)) |-> pad] \o str

\* static formatUnit(value, padLength = 2)
FormatUnit(value, padLength) ==
    PadStart(ToString(value), IF padLength = Undefined THEN 2 ELSE padLength, "0")

\* -------------------------------------------------------- the application
\* JSON.stringify(value) of StorageManager.set, for a boolean value
JsonStringify(value) == IF value THEN "true" ELSE "false"

\* JSON.parse(item) of StorageManager.get: a boolean, or the preferences object
JsonParse(item) ==
    IF item = "true" THEN TRUE
    ELSE IF item = "false" THEN FALSE
    ELSE [soundEnabled |-> item = "{soundEnabled:true}"]

\* StorageManager.set(key, value)
StorageSet(s, key, value) == [s EXCEPT !.storage[key] = JsonStringify(value)]

\* StorageManager.get(key, defaultValue)
StorageGet(s, key, defaultValue) ==
    IF s.storage[key] # "absent" THEN JsonParse(s.storage[key]) ELSE defaultValue

\* StorageManager.getPreferences()
GetPreferences(s) == StorageGet(s, "preferences", [soundEnabled |-> TRUE])

\* NotificationManager.toggleSound()
ToggleSound(s) ==
    Only({ StorageSet(a, "sound_enabled", a.soundEnabled)
           : a \in {[s EXCEPT !.soundEnabled = ~@]} })

\* BoxingDayApp.loadPreferences()
LoadPreferences(s) == [s EXCEPT !.soundEnabled = GetPreferences(s).soundEnabled]

\* BoxingDayApp.initCountdown(): a new engine with the default update
\* frequency, setBoxingDay().start(), and the year taken from the engine
InitCountdown(s) ==
    Only({ [a EXCEPT !.currentYear = a.targetYear]
           : a \in {Start(SetBoxingDay([s EXCEPT !.updateFrequency = DefaultUpdateFrequency,
                                                 !.targetDate = NoDate,
                                                 !.targetYear = Undefined,
                                                 !.intervalId = Null,
                                                 !.rafId = Undefined,
                                                 !.lastUpdateTime = EpochZero,
                                                 !.kind = "none",
                                                 !.completions = 0], Null))} })

\* BoxingDayApp.loadFromUrl(): params is the result of parseUrlParams(), with
\* NoDate for a URL without a date
LoadFromUrl(s, params) ==
    Only({ IF params.customDate # NoDate
           THEN Start(SetCustomDate(Stop(a), params.customDate))
           ELSE a
           : a \in {IF Truthy(params.year)
                    THEN Start(SetBoxingDay(Stop([b EXCEPT !.currentYear = params.year]),
                                            params.year))
                    ELSE b
                    : b \in {Traced(s, "loadFromUrl", FALSE)}} })

\* years.findIndex(y => y.year === year), an index from 0, or -1
FindIndex(years, year) ==
    IF \E i \in DOMAIN years : years[i].year = year
    THEN (CHOOSE i \in DOMAIN years :
              years[i].year = year /\ \A j \in 1..(i - 1) : years[j].year # year) - 1
    ELSE -1

\* showYearSelector() leaving the engine running while it changes the target
ShowYearSelectorRunning(s) ==
    Only({ Start(SetBoxingDay(a, a.currentYear))
           : a \in {[b EXCEPT !.currentYear =
                         GetAllBoxingDays(b)[((FindIndex(GetAllBoxingDays(b), b.currentYear) + 1)
                                              % Len(GetAllBoxingDays(b))) + 1].year]
                    : b \in {Traced(s, "showYearSelector", FALSE)}} })

\* BoxingDayApp.showYearSelector()
ShowYearSelector(s) ==
    Only({ Start(SetBoxingDay(Stop(a), a.currentYear))
           : a \in {[b EXCEPT !.currentYear =
                         GetAllBoxingDays(b)[((FindIndex(GetAllBoxingDays(b), b.currentYear) + 1)
                                              % Len(GetAllBoxingDays(b))) + 1].year]
                    : b \in {Traced(s, "showYearSelector", FALSE)}} })

\* BoxingDayApp.createCustomCountdown(): name and date are the values of the
\* form, "" and NoDate for a field left empty
CreateCustomCountdown(s, name, date) ==
    Only({ IF name = "" \/ date = NoDate
           THEN a
           ELSE Start(SetCustomDate(Stop(a), date))
           : a \in {Traced(s, "createCustomCountdown", FALSE)} })

\* BoxingDayApp.init() on a page that has just been loaded: the timers and the
\* objects of an earlier page are gone, localStorage is kept
AppInit(s, params) ==
    Only({ LoadPreferences(b)
           : b \in {LoadFromUrl(a, params)
                    : a \in {InitCountdown([s EXCEPT !.intervals = {},
                                                     !.frames = {},
                                                     !.timeouts = <<>>,
                                                     !.currentYear = Null,
                                                     !.soundEnabled = TRUE])}} })

\* ------------------------------------------------------------ the machine
\* What lastOp records when the operation was not a rollover.
NoRollover == [forYear |-> Null, stopped |-> FALSE, retargeted |-> FALSE, restarted |-> FALSE]
\* The caller has not called calculateTimeRemaining() yet.
NoResult == [none |-> TRUE]

\* localStorage on a first visit: no item under either key
EmptyStorage == [sound_enabled |-> "absent", preferences |-> "absent"]

\* new CountdownEngine(options): rafId is not assigned by the constructor;
\* around it new BoxingDayApp(), the NotificationManager literal and the
\* storage of a first visit
Constructed ==
    /\ targetDate = NoDate
    /\ targetYear = Undefined
    /\ intervalId = Null
    /\ rafId = Undefined
    /\ lastUpdateTime = EpochZero
    /\ intervals = {}
    /\ frames = {}
    /\ timeouts = <<>>
    /\ kind = "none"
    /\ completions = 0
    /\ lastOp = [op |-> "new", arg |-> Null, ticks |-> 0, completes |-> 0, scheduled |-> 0,
                 thrown |-> FALSE, rollover |-> NoRollover, trace |-> <<>>]
    /\ remaining = NoResult
    /\ returned = NoResult
    /\ currentYear = Null
    /\ soundEnabled = TRUE
    /\ storage = EmptyStorage

\* The clock of the scheduling machine starts just before December 26.
JustBefore ==
    /\ now \in {[yr |-> y, ms |-> 0 - StartOffset] : y \in ClockYears}
    /\ subMs = 0
    /\ updateFrequency \in UpdateFrequencies

\* The callbacks given in the options return normally.
Init == Constructed /\ JustBefore /\ throwing = "none"

\* The browser's queues stay within the bound.
WithinBounds(r) ==
    \E e \in {r} : Len(e.timeouts) <= MaxPending /\ Cardinality(e.frames) <= MaxPending

\* The state after an operation that ended in record r.
Commit(r, op, ro) ==
    \E e \in {r} :
        /\ now' = e.now
        /\ subMs' = e.subMs
        /\ remaining' = e.remaining
        /\ returned' = e.returned
        /\ currentYear' = e.currentYear
        /\ soundEnabled' = e.soundEnabled
        /\ storage' = e.storage
        /\ updateFrequency' = e.updateFrequency
        /\ targetDate' = e.targetDate
        /\ targetYear' = e.targetYear
        /\ intervalId' = e.intervalId
        /\ rafId' = e.rafId
        /\ lastUpdateTime' = e.lastUpdateTime
        /\ intervals' = e.intervals
        /\ frames' = e.frames
        /\ timeouts' = e.timeouts
        /\ throwing' = e.throwing
        /\ kind' = e.kind
        /\ completions' = e.completions
        /\ lastOp' = [op |-> op, arg |-> e.arg, ticks |-> e.ticks, completes |-> e.completes,
                      scheduled |-> e.scheduled, thrown |-> e.thrown, rollover |-> ro,
                      trace |-> e.trace]

\* The caller's operation is noted on every rollover still waiting.
Mark(q, field) == [i \in DOMAIN q |-> [q[i] EXCEPT ![field] = TRUE]]

\* the caller calls start(); the history of onComplete calls starts afresh,
\* so that a completion reported again by a new start() is not counted twice
CallStart ==
    LET r == Start([St EXCEPT !.completions = 0, !.timeouts = Mark(@, "restarted")])
    IN /\ WithinBounds(r)
       /\ Commit(r, "start", NoRollover)

\* the caller calls stop()
CallStop ==
    LET r == Stop([St EXCEPT !.timeouts = Mark(@, "stopped")])
    IN /\ WithinBounds(r)
       /\ Commit(r, "stop", NoRollover)

\* the caller calls setBoxingDay() or setBoxingDay(year)
CallSetBoxingDay ==
    \E year \in YearInputs \cup {Null} :
        LET r == SetBoxingDay([St EXCEPT !.arg = year, !.timeouts = Mark(@, "retargeted")], year)
        IN /\ WithinBounds(r)
           /\ Commit(r, "setBoxingDay", NoRollover)

\* the caller calls setCustomDate(dateString)
CallSetCustomDate ==
    \E date \in CustomDates :
        LET r == SetCustomDate([St EXCEPT !.timeouts = Mark(@, "retargeted")], date)
        IN /\ WithinBounds(r)
           /\ Commit(r, "setCustomDate", NoRollover)

\* The due times of the pending timers.
Dues == {t.due : t \in intervals} \cup {timeouts[i].due : i \in DOMAIN timeouts}

\* The clock advances, by one step or to the next due time; a timer fires at
\* its due time, so the clock does not pass one.  The frame callbacks that
\* were requested before belong to an earlier frame from now on.
Advance ==
    \E t \in {now.ms + ClockStep} \cup Dues :
        /\ t > now.ms
        /\ t <= MaxTime
        /\ \A d \in Dues : t <= d
        /\ Commit([St EXCEPT !.now.ms = t,
                             !.frames = {[f EXCEPT !.fresh = FALSE] : f \in @}],
                  "advance", NoRollover)

\* the browser runs the setInterval callback: () => this.update(); the timer
\* is re-armed for the next period unless the callback clears it.  Timers
\* that are due at the same instant fire in either order.
IntervalFire ==
    \E t \in intervals :
        /\ t.due <= now.ms
        /\ LET r == Update([St EXCEPT !.intervals = (@ \ {t}) \cup
                                          {[t EXCEPT !.due = @ + updateFrequency]}])
           IN /\ WithinBounds(r)
              /\ Commit(r, "interval", NoRollover)

\* the browser runs a requestAnimationFrame callback, in a later frame than
\* the one that requested it: () => this.rafLoop()
FrameFire ==
    \E f \in frames :
        /\ ~f.fresh
        /\ LET r == RafLoop([St EXCEPT !.frames = @ \ {f}])
           IN /\ WithinBounds(r)
              /\ Commit(r, "frame", NoRollover)

\* the browser runs the setTimeout callback of update(), lines 168-171
RolloverFire ==
    /\ timeouts # <<>>
    /\ Head(timeouts).due <= now.ms
    /\ LET h == Head(timeouts)
           s == [St EXCEPT !.timeouts = Tail(@)]
           r == Start(SetBoxingDay(s, s.targetYear + 1))
       IN /\ WithinBounds(r)
          /\ Commit(r, "rollover", [forYear |-> h.forYear, stopped |-> h.stopped,
                                    retargeted |-> h.retargeted, restarted |-> h.restarted])

Next ==
    \/ CallStart
    \/ CallStop
    \/ CallSetBoxingDay
    \/ CallSetCustomDate
    \/ Advance
    \/ IntervalFire
    \/ FrameFire
    \/ RolloverFire

Spec == Init /\ [][Next]_vars

\* The same engine, constructed with any callbacks.
InitThrowing == Constructed /\ JustBefore /\ throwing \in ThrowingCallbacks

SpecThrowing == InitThrowing /\ [][Next]_vars

\* ------------------------------------------ the arithmetic of the engine
\* The engine at a clock value between mid-December and December 27, with
\* targets up to weeks away: the caller sets targets and reads the time
\* remaining.
InitCalc ==
    /\ Constructed
    /\ now \in {[yr |-> y, ms |-> o] : y \in ClockYears, o \in CalcClockOffsets}
    /\ subMs \in 0..(SubMsSteps - 1)
    /\ updateFrequency = DefaultUpdateFrequency
    /\ throwing = "none"

\* the caller calls setBoxingDay() or setBoxingDay(year)
CalcSetBoxingDay ==
    \E year \in CalcYearInputs \cup {Null} :
        LET r == SetBoxingDay([St EXCEPT !.arg = year], year)
        IN /\ WithinBounds(r)
           /\ Commit(r, "setBoxingDay", NoRollover)

\* the caller calls setCustomDate(dateString)
CalcSetCustomDate ==
    \E date \in CalcCustomDates :
        LET r == SetCustomDate(St, date)
        IN /\ WithinBounds(r)
           /\ Commit(r, "setCustomDate", NoRollover)

\* the caller calls calculateTimeRemaining()
CalcRemaining ==
    LET r == CalculateTimeRemaining(St)
    IN /\ WithinBounds(r)
       /\ Commit(r, "calculateTimeRemaining", NoRollover)

\* the caller calls start(), once
CalcStart ==
    /\ intervalId = Null
    /\ timeouts = <<>>
    /\ LET r == Start(St)
       IN /\ WithinBounds(r)
          /\ Commit(r, "start", NoRollover)

NextCalc ==
    \/ CalcSetBoxingDay
    \/ CalcSetCustomDate
    \/ CalcRemaining
    \/ CalcStart

SpecCalc == InitCalc /\ [][NextCalc]_vars

\* ------------------------------------------------ the helpers of the engine
\* The caller sets recurring targets and calls the two helpers, which take
\* nothing from the clock.

\* the caller calls getAllBoxingDays()
HelperGetAllBoxingDays ==
    LET r == [St EXCEPT !.returned = [fn |-> "getAllBoxingDays", value |-> Null,
                                      padLength |-> Undefined,
                                      out |-> GetAllBoxingDays(St)]]
    IN /\ WithinBounds(r)
       /\ Commit(r, "getAllBoxingDays", NoRollover)

\* the caller calls CountdownEngine.formatUnit(value) or formatUnit(value, padLength)
HelperFormatUnit ==
    \E value \in 0..MaxValue, padLength \in PadLengths :
        LET r == [St EXCEPT !.returned = [fn |-> "formatUnit", value |-> value,
                                          padLength |-> padLength,
                                          out |-> FormatUnit(value, padLength)]]
        IN /\ WithinBounds(r)
           /\ Commit(r, "formatUnit", NoRollover)

NextHelpers ==
    \/ HelperGetAllBoxingDays
    \/ HelperFormatUnit
    \/ CallSetBoxingDay

SpecHelpers == Init /\ [][NextHelpers]_vars

\* ------------------------------------------------- the application machine
\* The years of the URL parameter, null for a URL without one.
UrlYears == {Null} \cup YearInputs
\* The dates of the URL parameter and of the form, NoDate for none.
UrlDates == {NoDate} \cup CustomDates
\* The names typed into the form.
CustomNames == {"", "Sale"}

\* The page before DOMContentLoaded: no engine is running yet.
InitApp ==
    /\ Constructed
    /\ now \in {[yr |-> y, ms |-> 0 - StartOffset] : y \in ClockYears}
    /\ subMs = 0
    /\ updateFrequency = DefaultUpdateFrequency
    /\ throwing = "none"

\* The page is loaded and BoxingDayApp.init() has run.
Loaded == lastOp.op # "new"

\* DOMContentLoaded of a page visit: new BoxingDayApp().init()
PageLoad ==
    \E year \in UrlYears, date \in UrlDates :
        LET r == AppInit(St, [year |-> year, customDate |-> date])
        IN /\ WithinBounds(r)
           /\ Commit(r, "pageLoad", NoRollover)

\* a click on the year display
AppShowYearSelector ==
    /\ Loaded
    /\ LET r == ShowYearSelector(St)
       IN /\ WithinBounds(r)
          /\ Commit(r, "showYearSelector", NoRollover)

\* the custom countdown form is submitted
AppCreateCustomCountdown ==
    /\ Loaded
    /\ \E name \in CustomNames, date \in UrlDates :
           LET r == CreateCustomCountdown(St, name, date)
           IN /\ WithinBounds(r)
              /\ Commit(r, "createCustomCountdown", NoRollover)

\* a click on the sound button: BoxingDayApp.toggleSound()
AppToggleSound ==
    /\ Loaded
    /\ LET r == ToggleSound(St)
       IN /\ WithinBounds(r)
          /\ Commit(r, "toggleSound", NoRollover)

NextApp ==
    \/ PageLoad
    \/ AppShowYearSelector
    \/ AppCreateCustomCountdown
    \/ AppToggleSound
    \/ Advance
    \/ IntervalFire
    \/ RolloverFire

SpecApp == InitApp /\ [][NextApp]_vars

\* ----------------------------------------------------------------- claims
\* The scheduling primitives of the engine that are pending in the browser.
ActivePrimitives == Cardinality(intervals) + Cardinality(frames)

\* C1: onComplete is invoked at most once for a target that is reached, also
\* when the target is already past when start() is called: since the target
\* was last set (or start() last called by the caller), onComplete has run
\* at most once.
C1_OnCompleteOncePerTarget == completions <= 1

\* C2: a tick that computes isComplete = true leaves the engine stopped: when
\* the operation that contained it has returned, no interval timer and no
\* frame callback is pending.
C2_CompletingTickStops == lastOp.completes > 0 => intervals = {} /\ frames = {}

\* C3: at most one scheduling primitive (interval timers plus frame
\* callbacks) of the engine is pending in any reachable state.
C3_AtMostOnePrimitive == ActivePrimitives <= 1

\* C4: a rollover does not fire once the caller has called stop() between
\* the completion that scheduled it and its due time.
C4_StopCancelsRollover == lastOp.op = "rollover" => ~lastOp.rollover.stopped

\* C5: a rollover does not fire once the caller has set a new target
\* (setBoxingDay or setCustomDate) after the completion that scheduled it.
C5_NewTargetDiscardsRollover == lastOp.op = "rollover" => ~lastOp.rollover.retargeted

\* C6: an operation in which a custom target completes schedules no rollover.
C6_CustomNeverRollsOver == lastOp.scheduled > 0 => kind # "custom"

\* C7: when the rollover scheduled by the completion of year Y fires and the
\* caller has not called the engine in between, the target year is Y + 1 and
\* the engine is running (a scheduling primitive is pending).
C7_RolloverAdvancesOneYear ==
    (/\ lastOp.op = "rollover"
     /\ ~lastOp.rollover.stopped
     /\ ~lastOp.rollover.retargeted
     /\ ~lastOp.rollover.restarted)
    => targetYear = lastOp.rollover.forYear + 1 /\ ActivePrimitives >= 1

\* C8: an operation in which the recurring target of yearRange.end completes
\* schedules no rollover and leaves no interval timer or frame callback.
C8_MaxYearStaysStopped ==
    (lastOp.completes > 0 /\ kind = "recurring" /\ targetYear = YearRangeEnd)
    => lastOp.scheduled = 0 /\ intervals = {} /\ frames = {}

\* C9: start() invokes onTick exactly once, in both scheduling modes.
C9_StartTicksOnce == lastOp.op = "start" => lastOp.ticks = 1

\* C10: when stop() has returned, no interval timer and no frame callback is
\* pending and neither handle refers to one.
C10_StopLeavesNothingPending ==
    lastOp.op = "stop" =>
        intervals = {} /\ frames = {} /\ ~Truthy(intervalId) /\ ~Truthy(rafId)

\* The active target is reached at the present clock value.
TargetReached == targetDate # NoDate /\ DiffLeqZero(targetDate, now)

\* C11: a callback that throws does not corrupt the engine: when an operation
\* that ran a tick has ended by an exception, the engine is still running if
\* the target is not reached (a scheduling primitive is pending), and it is
\* stopped with its rollover scheduled if a recurring target below
\* yearRange.end is reached.
C11_ThrowingCallbackKeepsEngine ==
    lastOp.thrown =>
        /\ (lastOp.op \in {"start", "interval", "frame", "rollover"} /\ ~TargetReached)
               => ActivePrimitives >= 1
        /\ (TargetReached /\ kind = "recurring" /\ targetYear < YearRangeEnd)
               => (intervals = {} /\ frames = {} /\ lastOp.scheduled > 0)

\* ---------------------------------------------- claims on the arithmetic
\* The caller's calculateTimeRemaining() has just returned `remaining`.
Asked == lastOp.op = "calculateTimeRemaining"

\* The clock and the target time stamp, as durations since December 26 of
\* the clock's year.
ClockValue == Since(now, subMs, now.yr)
TargetValue == Since(targetDate, 0, now.yr)

\* a + b
DurationPlus(a, b) ==
    LET f1 == a.f + b.f
        m1 == a.ms + b.ms + (f1 \div SubMsSteps)
    IN [d |-> a.d + b.d + (m1 \div DayMs), ms |-> m1 % DayMs, f |-> f1 % SubMsSteps]

\* The target parsed to a valid instant that lies strictly after the clock:
\* a Date holds whole milliseconds, so the part of a millisecond of the clock
\* does not matter.
TargetAhead == targetDate # InvalidDate /\ DateAfter(targetDate, now)
\* The target is a valid instant at or before the clock.
TargetPassed == targetDate # InvalidDate /\ ~DateAfter(targetDate, now)

\* C12: after setCustomDate() of a string that does not parse (which signals
\* no error), calculateTimeRemaining() reports isComplete = false, every unit
\* field zero and a validity flag: nothing derived from the invalid instant.
C12_InvalidDateNeverUsed ==
    (Asked /\ targetDate = InvalidDate) =>
        /\ ~remaining.isComplete
        /\ remaining.total = ZeroDuration
        /\ remaining.months = 0 /\ remaining.weeks = 0 /\ remaining.days = 0
        /\ remaining.hours = 0 /\ remaining.minutes = 0 /\ remaining.seconds = 0
        /\ remaining.milliseconds = [ms |-> 0, f |-> 0]
        /\ \E flag \in DOMAIN remaining : flag \in {"valid", "isValid", "invalid"}

\* C13: for a target strictly after the clock, calculateTimeRemaining()
\* returns isComplete = false and a total that is exactly target - now: the
\* clock plus the total is the target.
C13_FutureTotalExact ==
    (Asked /\ TargetAhead) =>
        /\ ~remaining.isComplete
        /\ DurationPlus(ClockValue, remaining.total) = TargetValue

C13_Witness ==
    /\ Asked /\ TargetAhead /\ subMs > 0 /\ now.ms > targetDate.ms
    /\ ~remaining.isComplete

\* C14: for a target at or before the clock, calculateTimeRemaining()
\* returns isComplete = true, total 0, every unit field 0 and the number 100
\* as progress.
C14_PastAllZero ==
    (Asked /\ TargetPassed) =>
        /\ remaining.isComplete
        /\ remaining.total = ZeroDuration
        /\ remaining.months = 0 /\ remaining.weeks = 0 /\ remaining.days = 0
        /\ remaining.hours = 0 /\ remaining.minutes = 0 /\ remaining.seconds = 0
        /\ remaining.milliseconds = [ms |-> 0, f |-> 0]
        /\ remaining.progress = [text |-> FALSE, hundredths |-> 10000]

C14_Witness ==
    /\ Asked /\ targetDate = now /\ subMs = 0
    /\ remaining.isComplete

\* C15: for a positive difference the fields are its decomposition: the
\* whole days, and below a day the hours (0..23), minutes (0..59), seconds
\* (0..59) and milliseconds (below 1000) add up to the difference; days is
\* totalDays mod 7, weeks is floor(totalDays / 7) mod 4 and months is
\* floor(totalDays / 30); exactly 30 days give totalDays 30, months 1,
\* weeks 0, days 2 and hours = minutes = seconds = 0.
C15_Decomposition ==
    (Asked /\ TargetAhead) =>
        LET r == remaining
        IN /\ DurationPlus(ClockValue, r.total) = TargetValue
           /\ r.hours \in 0..23 /\ r.minutes \in 0..59 /\ r.seconds \in 0..59
           /\ r.milliseconds.ms \in 0..999 /\ r.milliseconds.f \in 0..(SubMsSteps - 1)
           /\ r.total = [d |-> r.totalDays,
                         ms |-> r.hours * HourMs + r.minutes * MinuteMs
                                 + r.seconds * SecondMs + r.milliseconds.ms,
                         f |-> r.milliseconds.f]
           /\ r.days = r.totalDays % 7
           /\ r.weeks = (r.totalDays \div 7) % 4
           /\ r.months = r.totalDays \div 30
           /\ (r.total = [d |-> 30, ms |-> 0, f |-> 0] =>
                  /\ r.totalDays = 30 /\ r.months = 1 /\ r.weeks = 0 /\ r.days = 2
                  /\ r.hours = 0 /\ r.minutes = 0 /\ r.seconds = 0)

C15_Witness == Asked /\ TargetAhead /\ remaining.total = [d |-> 30, ms |-> 0, f |-> 0]

\* C16: every result has hours in 0..23, minutes in 0..59, seconds in 0..59,
\* days in 0..6, weeks in 0..3, milliseconds from 0 to 999 and months >= 0.
C16_FieldRanges ==
    Asked =>
        /\ remaining.hours \in 0..23
        /\ remaining.minutes \in 0..59
        /\ remaining.seconds \in 0..59
        /\ remaining.days \in 0..6
        /\ remaining.weeks \in 0..3
        /\ remaining.milliseconds.ms \in 0..999
        /\ (remaining.milliseconds.ms = 999 => remaining.milliseconds.f = 0)
        /\ remaining.months >= 0

\* C17: setBoxingDay() without a year sets the target to December 26, 00:00,
\* of the clock's year unless that instant has passed, and of the next year
\* if it has, and targetYear to that year: the year of the clock on December
\* 25, the next year on December 27.
C17_DefaultYear ==
    (lastOp.op = "setBoxingDay" /\ lastOp.arg = Null) =>
        /\ targetYear = (IF now.ms > 0 THEN now.yr + 1 ELSE now.yr)
        /\ targetDate = [yr |-> targetYear, ms |-> 0]
        /\ (now.ms = 0 - DayMs => targetYear = now.yr)
        /\ (now.ms = DayMs => targetYear = now.yr + 1)

C17_Witness ==
    /\ lastOp.op = "setBoxingDay" /\ lastOp.arg = Null
    /\ now.ms = DayMs /\ targetYear = now.yr + 1

CalendarYear(date) == IF date.ms >= 6 * DayMs THEN date.yr + 1 ELSE date.yr

\* C19: the progress of a result for a target ahead is between 0 and 100 and
\* is (now - yearStart) / (target - yearStart) * 100, clamped, with
\* yearStart the January 1 of the target's own year (of the clock's year if
\* no target year is tracked), for recurring and custom targets, also for a
\* custom target set after a recurring target of another year.
C19_ProgressOfTargetYear ==
    (Asked /\ TargetAhead) =>
        LET own == IF kind = "recurring" THEN targetYear
                   ELSE IF Truthy(targetYear) THEN CalendarYear(targetDate)
                   ELSE now.yr
            yearStart == YearStartSince(own, now.yr)
        IN /\ remaining.progress.hundredths \in 0..10000
           /\ remaining.progress.hundredths =
                  ProgressText(DurationMinus(ClockValue, yearStart),
                               DurationMinus(TargetValue, yearStart))

\* C20: calculateTimeRemaining() on an engine without a target sets the
\* target and targetYear that setBoxingDay() would set at that time
\* (December 26 of the clock's year, of the next year once it has passed)
\* and computes against it; on an engine with a target it leaves
\* targetDate, targetYear and both timer handles as they are.
C20_OnlyDefaultsTarget ==
    [][lastOp'.op = "calculateTimeRemaining" =>
          IF targetDate = NoDate
          THEN /\ targetYear' = (IF now.ms > 0 THEN now.yr + 1 ELSE now.yr)
               /\ targetDate' = [yr |-> targetYear', ms |-> 0]
               /\ kind' = "recurring"
               /\ remaining'.isComplete = ~DateAfter(targetDate', now')
               /\ intervalId' = intervalId /\ rafId' = rafId
          ELSE /\ targetDate' = targetDate /\ targetYear' = targetYear
               /\ intervalId' = intervalId /\ rafId' = rafId]_vars

C20_Witness == Asked /\ kind = "custom" /\ Truthy(intervalId)

\* ------------------------------------------------ claims on the helpers
\* C21: getAllBoxingDays() returns 12 entries, one for each year 2024..2035
\* in ascending order without duplicates, each with December 26, 00:00, of
\* its year as date; the call changes nothing of the engine, and a call
\* that follows another returns the same sequence.
C21_AllBoxingDays ==
    [][lastOp'.op = "getAllBoxingDays" =>
          LET out == returned'.out
          IN /\ Len(out) = 12
             /\ out[1].year = 2024 /\ out[Len(out)].year = 2035
             /\ \A i \in 1..(Len(out) - 1) : out[i].year < out[i + 1].year
             /\ \A i \in 1..Len(out) : out[i].date = [yr |-> out[i].year, ms |-> 0]
             /\ (lastOp.op = "getAllBoxingDays" => returned' = returned)
             /\ UNCHANGED <<targetDate, targetYear, intervalId, rafId, lastUpdateTime,
                            updateFrequency, intervals, frames, timeouts>>]_vars

C21_Witness ==
    /\ lastOp.op = "getAllBoxingDays" /\ targetYear = YearRangeEnd
    /\ Len(returned.out) = 12

\* The number a string of decimal digits names.
RECURSIVE DecimalValue(_)
DecimalValue(str) ==
    IF str = <<>> THEN 0
    ELSE 10 * DecimalValue(SubSeq(str, 1, Len(str) - 1))
         + (CHOOSE d \in 0..9 : ToString(d) = <<str[Len(str)]>>)

\* C22: formatUnit(value, padLength) returns, for an integer value >= 0, the
\* decimal digits of value with "0" in front up to padLength characters (2
\* if padLength is left out), and all the digits of a value that has more.
C22_FormatUnitPads ==
    lastOp.op = "formatUnit" =>
        LET out == returned.out
            pad == IF returned.padLength = Undefined THEN 2 ELSE returned.padLength
            digits == IF returned.value >= 100 THEN 3 ELSE IF returned.value >= 10 THEN 2 ELSE 1
        IN /\ Len(out) = (IF digits > pad THEN digits ELSE pad)
           /\ DecimalValue(out) = returned.value
           /\ \A i \in 1..(Len(out) - digits) : out[i] = "0"
           /\ out[Len(out) - digits + 1] # "0" \/ returned.value = 0

C22_Witness ==
    /\ lastOp.op = "formatUnit" /\ returned.value = 100 /\ returned.padLength = Undefined
    /\ returned.out = <<"1", "0", "0">>

\* ------------------------------------------------- claims on the tick order
\* the onUpdate calls of an operation, in order
OnTicks(tr) == SelectSeq(tr, LAMBDA ev : ev.e = "onUpdate")

\* C23: in animation-frame mode (updateFrequency below 100 ms) two
\* consecutive onTick calls, the immediate tick of start() and the first
\* tick of the frame loop among them, are at least updateFrequency
\* milliseconds apart.
C23_FrameTicksSpaced ==
    updateFrequency < RafThreshold =>
        \A i \in 1..(Len(OnTicks(lastOp.trace)) - 1) :
            OnTicks(lastOp.trace)[i + 1].at - OnTicks(lastOp.trace)[i].at >= updateFrequency

\* C24: in every tick onTick(remaining) comes first, and only when remaining
\* is complete the engine is stopped, then onComplete is called, then the
\* rollover is scheduled: every onComplete call comes directly after the
\* stop() that follows an onTick carrying isComplete = true, with intervalId
\* and rafId already cleared, and every setTimeout directly after onComplete.
C24_TickOrder ==
    \A i \in 1..Len(lastOp.trace) :
        LET tr == lastOp.trace
        IN /\ tr[i].e = "onComplete" =>
                /\ i >= 3
                /\ tr[i - 1].e = "stop"
                /\ tr[i - 2].e = "onUpdate" /\ tr[i - 2].complete
                /\ ~Truthy(tr[i].intervalId) /\ ~Truthy(tr[i].rafId)
           /\ tr[i].e = "setTimeout" => (i >= 2 /\ tr[i - 1].e = "onComplete")
           /\ (tr[i].e = "stop" /\ i >= 2 /\ tr[i - 1].e = "onUpdate") => tr[i - 1].complete
           /\ (tr[i].e = "onUpdate" /\ tr[i].complete) =>
                /\ Len(tr) >= i + 2
                /\ tr[i + 1].e = "stop"
                /\ tr[i + 2].e = "onComplete"

\* an interval timer fires on a running engine, reaches the target, and the
\* tick stops the engine, reports the completion and schedules the rollover
C24_Witness ==
    /\ lastOp.op = "interval"
    /\ Len(lastOp.trace) = 4
    /\ lastOp.trace[1].e = "onUpdate" /\ Truthy(lastOp.trace[1].intervalId)
    /\ lastOp.trace[3].e = "onComplete"
    /\ lastOp.trace[4].e = "setTimeout"

\* ------------------------------------------------ claims on the application
\* the operations of BoxingDayApp that change the target of the engine
AppCalls == {"loadFromUrl", "showYearSelector", "createCustomCountdown"}

\* the calls of the engine that change its target
TargetChanges == {"setBoxingDay", "setCustomDate"}

\* C25: showYearSelector, createCustomCountdown and loadFromUrl call
\* countdown.stop() directly before they change the target and
\* countdown.start() directly after, so that the engine holds no timer while
\* the target changes, every onTick after the change is computed against the
\* new target, and no timer armed before the change is left to tick.
C25_StopBeforeTargetChange ==
    LET tr == lastOp.trace
        changes == {i \in 1..Len(tr) : /\ tr[i].e \in TargetChanges
                                       /\ \E j \in 1..(i - 1) : tr[j].e \in AppCalls}
    IN /\ \A i \in changes :
              /\ tr[i - 1].e = "stop"
              /\ ~Truthy(tr[i].intervalId) /\ ~Truthy(tr[i].rafId)
              /\ i < Len(tr) /\ tr[i + 1].e = "start"
              /\ \A k \in (i + 1)..Len(tr) :
                     (tr[k].e = "onUpdate" /\ \A m \in (i + 1)..k : tr[m].e \notin TargetChanges)
                         => tr[k].target = tr[i].target
       /\ changes # {} => (frames = {} /\ \A t \in intervals : t.id = intervalId)

\* a click on the year display while the engine is running on its interval
\* timer: the target changes and the countdown ticks against the new one
C25_Witness ==
    /\ lastOp.op = "showYearSelector"
    /\ Truthy(lastOp.trace[1].intervalId)
    /\ lastOp.trace[2].e = "stop"
    /\ lastOp.trace[3].e = "setBoxingDay"
    /\ lastOp.trace[3].target # lastOp.trace[1].target
    /\ \E k \in 4..Len(lastOp.trace) : lastOp.trace[k].e = "onUpdate"

\* C26: the sound preference persists across page visits: after a
\* toggleSound() the next page initialisation leaves
\* NotificationManager.soundEnabled at the value the toggle produced.
C26_SoundPreferencePersists ==
    [][(lastOp.op = "toggleSound" /\ lastOp'.op = "pageLoad")
           => soundEnabled' = soundEnabled]_vars

\* C29: while a recurring target is active, BoxingDayApp.currentYear is the
\* engine's targetYear, after any initialisation, URL loading, year-selector
\* click and auto-rollover.
C29_CurrentYearIsTargetYear ==
    (Loaded /\ kind = "recurring") => currentYear = targetYear

\* ------------------------------------------------- claims on the rollover
\* C27: at most one deferred rollover of the engine is pending at any time.
C27_AtMostOneRolloverPending == Len(timeouts) <= 1

\* C28: the rollover never takes the target year beyond yearRange.end: when
\* a rollover fires and the caller has not called the engine since the
\* completion that scheduled it, targetYear is at most 2035.
C28_RolloverStaysInRange ==
    (/\ lastOp.op = "rollover"
     /\ ~lastOp.rollover.stopped
     /\ ~lastOp.rollover.retargeted
     /\ ~lastOp.rollover.restarted
     /\ kind = "recurring")
    => targetYear <= YearRangeEnd

\* ---------------------------------------------- claims on the result record
\* C30: every result of calculateTimeRemaining(), complete or not, has the
\* same fields with numbers as values: totalDays is a number, 0 when the
\* result is complete, and progress is a number.
C30_UniformResult ==
    Asked =>
        /\ remaining.totalDays \notin {Undefined, NaN}
        /\ remaining.isComplete => remaining.totalDays = 0
        /\ ~remaining.progress.text

====
